---- MODULE Spec2Model ----
(***************************************************************************)
(* A model of the rotating file logger of j32u4ukh/glog (src/logger.go,    *)
(* src/options.go).  The Logger struct is the record l; os.File and        *)
(* bufio.Writer objects live in two heaps (fobj, wobj) addressed by        *)
(* positive integers, 0 being Go's nil; the output folder is fs, a         *)
(* function from file paths to file contents.  A file content is a         *)
(* sequence of chunks <<rid, bytes>>: bytes of the record number rid.      *)
(* Times are pairs <<day, second of day>>.                                  *)
(***************************************************************************)
EXTENDS Integers, Sequences, FiniteSets, TLC

VARIABLES l, fobj, wobj, fs, now, panic, g, pc, tl, mu, reg

vars == <<l, fobj, wobj, fs, now, panic, g, pc, tl, mu, reg>>

----------------------------------------------------------------------------
(* Program constants *)

TOCONSOLE == 1
TOFILE == 2
FILEINFO == 4
LINEINFO == 8

HourToSecond == 3600
DayToSecond == 24 * HourToSecond
KB == 1024
MB == 1024 * KB

DebugLevel == 0
InfoLevel == 1
WarnLevel == 2
ErrorLevel == 3

ShiftNone == 0
ShiftSecond == 1
ShiftHour == 2
ShiftDay == 3
ShiftSize == 4
ShiftSecondAndSize == 5
ShiftHourAndSize == 6
ShiftDayAndSize == 7

MaxDays == 105850
MaxHours == 2540400

\* time.Duration is an int64 of nanoseconds.  The largest number of days
\* (hours) whose nanoseconds fit in it, the whole days (hours) in 2^64
\* nanoseconds, and the seconds, rounded up, that 2^64 nanoseconds have on
\* top of them
HalfRangeDays == 106751
RangeDays == 213503
RangeDaysRest == 84874
HalfRangeHours == 2562047
RangeHours == 5124095
RangeHoursRest == 2074
DefaultBufferSize == 4096

LogLevels == {DebugLevel, InfoLevel, WarnLevel, ErrorLevel}

----------------------------------------------------------------------------
(* Bounds of the model *)

\* total number of emits (calls of Logout) in the sequential specification
MaxEmits == 3
\* number of emits of each thread in the concurrent specification
MaxThreadEmits == 2
\* number of calls of Flush where Flush may be called again
MaxFlushes == 2
\* runs of the program over the same folder that a behaviour has
MaxRuns == 2
\* signals (SIGINT, SIGTERM) delivered to the process
MaxSignals == 2
\* the indexes loggers are registered under (a byte each)
Indexes == {0, 255}
\* calls of Logout by each thread under fair scheduling
MaxFairEmits == 1

\* byte lengths of the formatted records that are emitted
RecSizes == {40, 2100}
\* the instants the wall clock takes, in order (day, second of the day):
\* 23:59:58, then 00:00:02 and 00:00:40 of the next day
Instants == << <<0, 86398>>, <<1, 2>>, <<1, 40>> >>
\* folders a logger is given
Folders == {"", "log"}
\* the two threads of the concurrent specification
Threads == {1, 2}

----------------------------------------------------------------------------
(* time.Time *)

\* the zero time.Time (January 1, year 1): before every instant of the clock
ZeroTime == <<-1, 0>>

After(a, b) == a[1] > b[1] \/ (a[1] = b[1] /\ a[2] > b[2])

AddSeconds(t, n) ==
  LET tot == t[2] + n IN <<t[1] + (tot \div DayToSecond), tot % DayToSecond>>

AddHours(t, n) == AddSeconds(<<t[1] + (n \div 24), t[2]>>, (n % 24) * HourToSecond)

AddDays(t, n) == <<t[1] + n, t[2]>>

Midnight(t) == <<t[1], 0>>

HourStart(t) == <<t[1], (t[2] \div HourToSecond) * HourToSecond>>

MinuteStart(t) == <<t[1], (t[2] \div 60) * 60>>

\* the wall clock of the zone utc hours east of Greenwich at the instant t
InZone(t, utc) == AddSeconds(t, utc * HourToSecond)

\* time.Date(y, m, d, 0, 0, 0, 0, loc) and time.Date(y, m, d, h, 0, 0, 0, loc)
\* of the instant t: the instant of the last midnight (full hour) of the zone
LocalMidnight(t, utc) == AddSeconds(Midnight(InZone(t, utc)), 0 - utc * HourToSecond)

LocalHourStart(t, utc) == AddSeconds(HourStart(InZone(t, utc)), 0 - utc * HourToSecond)

\* time.Duration(n * DayToNano) and time.Duration(n * HourToNano) for n > 0,
\* in whole days (hours) and seconds, rounded down: the int64 product wraps
\* around once n is over HalfRangeDays (HalfRangeHours).  Good for products
\* below 3 * 2^63.
DaysDuration(n) ==
  IF n <= HalfRangeDays THEN <<n, 0>> ELSE <<n - RangeDays, 0 - RangeDaysRest>>

HoursDuration(n) ==
  IF n <= HalfRangeHours THEN <<n, 0>> ELSE <<n - RangeHours, 0 - RangeHoursRest>>

\* the seconds from the instant a to the instant b
Seconds(a, b) == (b[1] - a[1]) * DayToSecond + (b[2] - a[2])

----------------------------------------------------------------------------
(* Output masks *)

HasBit(m, b) == (m \div b) % 2 = 1

SetBit(m, b) == IF HasBit(m, b) THEN m ELSE m + b

ClearBit(m, b) == IF HasBit(m, b) THEN m - b ELSE m

----------------------------------------------------------------------------
(* File contents *)

RECURSIVE Bytes(_)
Bytes(c) == IF c = <<>> THEN 0 ELSE c[1][2] + Bytes(Tail(c))

Put(c, rid, n) ==
  IF n = 0 THEN c
  ELSE IF c # <<>> /\ c[Len(c)][1] = rid
       THEN [c EXCEPT ![Len(c)] = <<rid, @[2] + n>>]
       ELSE Append(c, <<rid, n>>)

RECURSIVE Cat(_, _)
Cat(c, d) == IF d = <<>> THEN c ELSE Cat(Put(c, d[1][1], d[1][2]), Tail(d))

----------------------------------------------------------------------------
(* The label of a record.  A string is the sequence of its pieces: the     *)
(* separators "." and "/" and the runs of other characters between them.   *)

\* the pieces of s before the first sep (all of s if it has none)
RECURSIVE UpTo(_, _)
UpTo(s, sep) ==
  IF s = <<>> \/ s[1] = sep THEN <<>> ELSE <<s[1]>> \o UpTo(Tail(s), sep)

\* strings.Split(s, sep)
RECURSIVE Split(_, _)
Split(s, sep) ==
  LET head == UpTo(s, sep)
  IN IF Len(head) = Len(s) THEN <<s>>
     ELSE <<head>> \o Split(SubSeq(s, Len(head) + 2, Len(s)), sep)

\* runtime.FuncForPC(pc).Name() of a caller: the import path of its package,
\* the receiver in the case of a method, and the name of the function
FuncName(c) ==
  c.pkg \o (IF c.recv = "" THEN <<>> ELSE <<".", c.recv>>) \o <<".", c.fn>>

\* lines 329-342: the package and function tokens of "[pkg] func"
Label(funcName) ==
  LET names == Split(funcName, ".")
  IN IF Len(names) = 2
     THEN LET temp == Split(names[1], "/")
          IN [pkg |-> temp[Len(temp)], fn |-> names[2]]
     ELSE LET temp == Split(names[2], "/")
          IN [pkg |-> temp[Len(temp)], fn |-> names[3]]

----------------------------------------------------------------------------
(* The Logger struct after newLogger *)

newLogger(loggerName, level, options) ==
  [ folder |-> "",
    loggerName |-> loggerName,
    level |-> level,
    utc |-> 0,
    outputs |-> [lv \in LogLevels |->
                   IF lv \in {DebugLevel, InfoLevel}
                   THEN TOCONSOLE + LINEINFO
                   ELSE TOCONSOLE + FILEINFO + LINEINFO],
    outputInited |-> FALSE,
    writer |-> 0,
    writers |-> <<0, 0>>,
    bufferSize |-> DefaultBufferSize,
    files |-> <<0, 0>>,
    shiftType |-> ShiftDay,
    timeInterval |-> 0,
    date |-> ZeroTime,
    nShift |-> 0,
    sizeLimit |-> 0,
    cumSize |-> 0 ]

\* The world a handler acts on: the logger, the two heaps, the folder, and
\* whether the process has died of a nil dereference.
World == [l |-> l, fobj |-> fobj, wobj |-> wobj, fs |-> fs, panic |-> panic]

----------------------------------------------------------------------------
(* Rotation policy *)

SetSizeLimit(L, size) == [L EXCEPT !.sizeLimit = size]

setDaysInterval(L, t, days) ==
  IF days <= 0 THEN [L EXCEPT !.timeInterval = -1]
  ELSE LET iv == IF MaxDays < days THEN days ELSE MaxDays
           d == DaysDuration(iv)
       IN [L EXCEPT !.timeInterval = iv,
                    !.date = AddSeconds(AddDays(LocalMidnight(t, L.utc), d[1]), d[2])]

setHourInterval(L, t, hour) ==
  IF hour <= 0 THEN [L EXCEPT !.timeInterval = -1]
  ELSE LET iv == IF MaxHours < hour THEN hour ELSE MaxHours
           d == HoursDuration(iv)
       IN [L EXCEPT !.timeInterval = iv,
                    !.date = AddSeconds(AddHours(LocalHourStart(t, L.utc), d[1]), d[2])]

setSencodInterval(L, t, second) ==
  IF second <= 0 THEN [L EXCEPT !.timeInterval = -1]
  ELSE [L EXCEPT !.timeInterval = second, !.date = AddSeconds(t, second)]

SetShiftCondition(L, t, shiftType, times, size) ==
  LET L1 == [L EXCEPT !.cumSize = 0, !.shiftType = shiftType]
  IN CASE shiftType = ShiftSecond -> setSencodInterval(L1, t, times)
       [] shiftType = ShiftHour -> setHourInterval(L1, t, times)
       [] shiftType = ShiftDay -> setDaysInterval(L1, t, times)
       [] shiftType = ShiftSize -> SetSizeLimit(L1, size)
       [] shiftType = ShiftSecondAndSize ->
            SetSizeLimit(setSencodInterval(L1, t, times), size)
       [] shiftType = ShiftHourAndSize ->
            SetSizeLimit(setHourInterval(L1, t, times), size)
       [] shiftType = ShiftDayAndSize ->
            SetSizeLimit(setDaysInterval(L1, t, times), size)
       [] OTHER -> L1

SizeTypes == {ShiftSize, ShiftSecondAndSize, ShiftHourAndSize, ShiftDayAndSize}

DayTypes == {ShiftDay, ShiftDayAndSize}

HourTypes == {ShiftHour, ShiftHourAndSize}

SecondTypes == {ShiftSecond, ShiftSecondAndSize}

TimeTypes == DayTypes \cup HourTypes \cup SecondTypes

\* whetherNeedUpdateOutputs as it would be if the size test were passed by
\* the first byte written
whetherNeedUpdateOutputsAnyByte(L, t) ==
  IF L.shiftType = ShiftNone THEN 0
  ELSE IF L.shiftType = ShiftSize
       THEN (IF L.cumSize > 0 THEN 1 ELSE 0)
       ELSE IF After(t, L.date) THEN 2
            ELSE IF L.shiftType \in {ShiftDayAndSize, ShiftHourAndSize, ShiftSecondAndSize}
                    /\ L.cumSize > 0
                 THEN 1 ELSE 0

\* 0: no rotation needed; 1: the size limit is reached; 2: the deadline passed
whetherNeedUpdateOutputs(L, t) ==
  IF L.shiftType = ShiftNone THEN 0
  ELSE IF L.shiftType = ShiftSize
       THEN (IF L.cumSize >= L.sizeLimit THEN 1 ELSE 0)
       ELSE IF After(t, L.date) THEN 2
            ELSE IF L.shiftType \in {ShiftDayAndSize, ShiftHourAndSize, ShiftSecondAndSize}
                    /\ L.cumSize >= L.sizeLimit
                 THEN 1 ELSE 0

----------------------------------------------------------------------------
(* File names *)

getFileTime(L, t) ==
  CASE L.shiftType \in {ShiftDay, ShiftDayAndSize} -> Midnight(InZone(t, L.utc))
    [] L.shiftType \in {ShiftHour, ShiftHourAndSize} -> HourStart(InZone(t, L.utc))
    [] OTHER -> MinuteStart(InZone(t, L.utc))

\* the path of "<folder>/<loggerName>-<ts>.log" (n = 0) or
\* "<folder>/<loggerName>-<ts>-<n>.log" of the logger L
Path(L, ts, n) == [folder |-> L.folder, name |-> L.loggerName, ts |-> ts, n |-> n]

getFilePath(L, t) ==
  LET ts == getFileTime(L, t)
  IN IF L.shiftType \in SizeTypes
     THEN IF L.nShift = 0
          THEN [l |-> L, path |-> Path(L, ts, 0)]
          ELSE [l |-> [L EXCEPT !.nShift = @ + 1], path |-> Path(L, ts, L.nShift)]
     ELSE [l |-> L, path |-> Path(L, ts, 0)]

\* the loop of getInitPath: the first n such that "-<n+1>" is not taken
RECURSIVE FreeShift(_, _, _)
FreeShift(names, ts, n) ==
  IF <<ts, n + 1>> \in names THEN FreeShift(names, ts, n + 1) ELSE n

getInitPath(L, fsys, t) ==
  LET names == {<<p.ts, p.n>> : p \in {q \in DOMAIN fsys : /\ q.folder = L.folder
                                                          /\ q.name = L.loggerName}}
      ts == getFileTime(L, t)
  IN IF <<ts, 0>> \notin names
     THEN [l |-> [L EXCEPT !.nShift = 1], path |-> Path(L, ts, 0)]
     ELSE LET n == FreeShift(names, ts, L.nShift)
              p == Path(L, ts, n)
          IN IF p \in DOMAIN fsys
             THEN LET L1 == [L EXCEPT !.nShift = n, !.cumSize = Bytes(fsys[p])]
                  IN IF whetherNeedUpdateOutputs(L1, t) # 0
                     THEN [l |-> [L1 EXCEPT !.cumSize = 0, !.nShift = n + 2],
                           path |-> Path(L, ts, n + 1)]
                     ELSE [l |-> [L1 EXCEPT !.nShift = n + 1], path |-> p]
             ELSE [l |-> [L EXCEPT !.nShift = n + 1], path |-> p]

----------------------------------------------------------------------------
(* os.File and bufio.Writer *)

\* os.OpenFile(path, O_WRONLY|O_CREATE|O_APPEND): ok says whether it succeeds.
\* The result has the new world and the handle (0 when the open failed).
\* A handle is bad once the device fails: writes to it return an error.
OpenFile(W, path, ok) ==
  IF ~ok THEN [W |-> W, f |-> 0]
  ELSE [W |-> [W EXCEPT !.fobj = Append(@, [path |-> path, closed |-> FALSE, bad |-> FALSE]),
                        !.fs = IF path \in DOMAIN @ THEN @ ELSE @ @@ (path :> <<>>)],
        f |-> Len(W.fobj) + 1]

\* (*os.File).Close; on a nil handle it only returns an error
FileClose(W, f) == IF f = 0 THEN W ELSE [W EXCEPT !.fobj[f].closed = TRUE]

\* bufio.NewWriterSize(file, size)
NewWriterSize(W, f, size) ==
  [W |-> [W EXCEPT !.wobj = Append(@, [f |-> f, size |-> size, buf |-> <<>>, err |-> FALSE])],
   w |-> Len(W.wobj) + 1]

\* (*bufio.Writer).Flush: the buffer goes to the file; writing to a closed
\* or bad file fails, the error sticks to the writer and the buffer is kept
BufFlush(W, w) ==
  LET b == W.wobj[w]
  IN IF b.err \/ b.buf = <<>> THEN W
     ELSE IF b.f = 0 \/ W.fobj[b.f].closed \/ W.fobj[b.f].bad
          THEN [W EXCEPT !.wobj[w].err = TRUE]
          ELSE [W EXCEPT !.fs[W.fobj[b.f].path] = Cat(@, b.buf),
                         !.wobj[w].buf = <<>>]

\* (*bufio.Writer).WriteString of the rest bytes of record rid: while the
\* record does not fit, fill the buffer and flush it
RECURSIVE WriteString(_, _, _, _, _)
WriteString(W, w, rid, rest, nn) ==
  LET b == W.wobj[w]
      avail == b.size - Bytes(b.buf)
  IN IF rest > avail /\ ~b.err
     THEN WriteString(BufFlush([W EXCEPT !.wobj[w].buf = Put(@, rid, avail)], w),
                      w, rid, rest - avail, nn + avail)
     ELSE IF b.err THEN [W |-> W, n |-> nn, err |-> TRUE]
          ELSE [W |-> [W EXCEPT !.wobj[w].buf = Put(@, rid, rest)],
                n |-> nn + rest, err |-> FALSE]

----------------------------------------------------------------------------
(* Logout, initOutput and updateOutput, one statement group at a time.     *)
(* x holds the locals of the call: level, size and number (rid) of the     *)
(* record, whether the open of this call succeeds (ok), status, idx, the   *)
(* writer loaded for the write (w) and what the call returns (err); the    *)
(* other fields note what the call did: whether it printed the record on   *)
(* the console (echo), the file path it chose (target),                    *)
(* whether it called os.OpenFile (tried), the handle updateOutput opened   *)
(* (opened), the writer updateOutput flushed (retired), whether its write  *)
(* took cumSize over the size limit (crossed).                             *)

\* the value of a path variable before a path is assigned to it
NoPath == [folder |-> "", name |-> "", ts |-> ZeroTime, n |-> 0]

Locals(level, size, rid, ok) ==
  [level |-> level, size |-> size, rid |-> rid, ok |-> ok,
   status |-> 0, idx |-> 0, w |-> 0, err |-> "none", echo |-> FALSE,
   opened |-> 0, retired |-> 0, target |-> NoPath, crossed |-> FALSE, tried |-> FALSE]

Goto(W, x, label) == [W |-> W, x |-> x, pc |-> label]

\* Logout as it would be if the file block were entered on the console bit
LogoutStartOnConsoleBit(W, x) ==
  LET x1 == [x EXCEPT !.echo = HasBit(W.l.outputs[x.level], TOCONSOLE)]
  IN IF W.l.level > x.level THEN Goto(W, x, "done")
     ELSE IF ~HasBit(W.l.outputs[x.level], TOCONSOLE) THEN Goto(W, x1, "done")
     ELSE IF W.l.outputInited THEN Goto(W, x1, "need") ELSE Goto(W, x1, "i1")

\* Logout as it would be without the test of the threshold
LogoutStartAnyLevel(W, x) ==
  LET x1 == [x EXCEPT !.echo = HasBit(W.l.outputs[x.level], TOCONSOLE)]
  IN IF ~HasBit(W.l.outputs[x.level], TOFILE) THEN Goto(W, x1, "done")
     ELSE IF W.l.outputInited THEN Goto(W, x1, "need") ELSE Goto(W, x1, "i1")

\* lines 320-363: threshold, console echo, is the level routed to a file
LogoutStart(W, x) ==
  LET x1 == [x EXCEPT !.echo = HasBit(W.l.outputs[x.level], TOCONSOLE)]
  IN IF W.l.level > x.level THEN Goto(W, x, "done")
     ELSE IF ~HasBit(W.l.outputs[x.level], TOFILE) THEN Goto(W, x1, "done")
     ELSE IF W.l.outputInited THEN Goto(W, x1, "need") ELSE Goto(W, x1, "i1")

\* Logout as it would be if the decision counted the pending record
LogoutNeedPending(W, x, t) ==
  LET status == whetherNeedUpdateOutputs([W.l EXCEPT !.cumSize = @ + x.size], t)
  IN Goto(W, [x EXCEPT !.status = status], IF status # 0 THEN "u1" ELSE "lock")

\* line 365
LogoutNeed(W, x, t) ==
  LET status == whetherNeedUpdateOutputs(W.l, t)
  IN Goto(W, [x EXCEPT !.status = status], IF status # 0 THEN "u1" ELSE "lock")

\* initOutput as it would be without the test of the folder
InitPathAnyFolder(W, x, t) ==
  LET r == getInitPath(W.l, W.fs, t)
  IN Goto([W EXCEPT !.l = r.l], [x EXCEPT !.target = r.path], "i2")

\* lines 427-440
InitPath(W, x, t) ==
  IF W.l.folder = "" THEN Goto(W, [x EXCEPT !.err = "config"], "done")
  ELSE LET r == getInitPath(W.l, W.fs, t)
       IN Goto([W EXCEPT !.l = r.l], [x EXCEPT !.target = r.path], "i2")

\* initOutput as it would be if a failed open still marked the output as
\* initialized
InitOpenMarked(W, x) ==
  LET o == OpenFile(W, x.target, x.ok)
      W1 == [o.W EXCEPT !.l.files[1] = o.f]
      x1 == [x EXCEPT !.tried = TRUE]
  IN IF o.f = 0
     THEN Goto([W1 EXCEPT !.l.outputInited = TRUE], [x1 EXCEPT !.err = "open"], "done")
     ELSE Goto(W1, x1, "i3")

\* lines 442-446
InitOpen(W, x) ==
  LET o == OpenFile(W, x.target, x.ok)
      W1 == [o.W EXCEPT !.l.files[1] = o.f]
      x1 == [x EXCEPT !.tried = TRUE]
  IN IF o.f = 0 THEN Goto(W1, [x1 EXCEPT !.err = "open"], "done")
     ELSE Goto(W1, x1, "i3")

\* initOutput as it would be if it did not set outputInited
InitWriterUnmarked(W, x) ==
  LET n == NewWriterSize(W, W.l.files[1], W.l.bufferSize)
  IN Goto([n.W EXCEPT !.l.writers[1] = n.w, !.l.writer = n.w], x, "lock")

\* lines 448-451
InitWriter(W, x) ==
  LET n == NewWriterSize(W, W.l.files[1], W.l.bufferSize)
  IN Goto([n.W EXCEPT !.l.writers[1] = n.w, !.l.writer = n.w, !.l.outputInited = TRUE],
          x, "lock")

\* updateOutput as it would be if it kept cumSize
UpdateResetKeepSize(W, x, t) ==
  LET L1 == W.l
      L2 == IF x.status = 2
            THEN [SetShiftCondition([L1 EXCEPT !.nShift = 0], t,
                                    L1.shiftType, L1.timeInterval, L1.sizeLimit)
                  EXCEPT !.cumSize = L1.cumSize]
            ELSE L1
  IN Goto([W EXCEPT !.l = L2], x, "u2")

\* updateOutput as it would be if it set the shift condition anew at every
\* rotation
UpdateResetAlways(W, x, t) ==
  LET L1 == [W.l EXCEPT !.cumSize = 0]
      L2 == SetShiftCondition([L1 EXCEPT !.nShift = IF x.status = 2 THEN 0 ELSE @], t,
                              L1.shiftType, L1.timeInterval, L1.sizeLimit)
  IN Goto([W EXCEPT !.l = L2], x, "u2")

\* lines 602-608
UpdateReset(W, x, t) ==
  LET L1 == [W.l EXCEPT !.cumSize = 0]
      L2 == IF x.status = 2
            THEN SetShiftCondition([L1 EXCEPT !.nShift = 0], t,
                                   L1.shiftType, L1.timeInterval, L1.sizeLimit)
            ELSE L1
  IN Goto([W EXCEPT !.l = L2], x, "u2")

\* lines 610-619: the free slot; with both slots taken errors.Wrap(nil, ...)
\* is nil, so Logout goes on to the write
UpdateSlot(W, x) ==
  IF W.l.files[1] = 0 THEN Goto(W, [x EXCEPT !.idx = 0], "u3")
  ELSE IF W.l.files[2] = 0 THEN Goto(W, [x EXCEPT !.idx = 1], "u3")
  ELSE Goto(W, [x EXCEPT !.idx = -1], "lock")

\* updateOutput as it would be if a failed open closed the active file
UpdateOpenDropOld(W, x, t) ==
  LET r == getFilePath(W.l, t)
      o == OpenFile([W EXCEPT !.l = r.l], r.path, x.ok)
      W1 == [o.W EXCEPT !.l.files[x.idx + 1] = o.f]
      x1 == [x EXCEPT !.tried = TRUE, !.target = r.path]
  IN IF o.f = 0
     THEN Goto(FileClose(W1, W1.l.files[2 - x.idx]), [x1 EXCEPT !.err = "open"], "done")
     ELSE Goto(W1, [x1 EXCEPT !.opened = o.f], "u4")

\* lines 621-626
UpdateOpen(W, x, t) ==
  LET r == getFilePath(W.l, t)
      o == OpenFile([W EXCEPT !.l = r.l], r.path, x.ok)
      W1 == [o.W EXCEPT !.l.files[x.idx + 1] = o.f]
      x1 == [x EXCEPT !.tried = TRUE, !.target = r.path]
  IN IF o.f = 0 THEN Goto(W1, [x1 EXCEPT !.err = "open"], "done")
     ELSE Goto(W1, [x1 EXCEPT !.opened = o.f], "u4")

\* lines 628-629
UpdateWriter(W, x) ==
  LET n == NewWriterSize(W, W.l.files[x.idx + 1], W.l.bufferSize)
  IN Goto([n.W EXCEPT !.l.writers[x.idx + 1] = n.w, !.l.writer = n.w], x, "u5")

\* updateOutput as it would be if it closed the old file without the flush
UpdateDrainNoFlush(W, x) ==
  LET j == 1 - x.idx
      old == W.l.writers[j + 1]
  IN IF old = 0 THEN Goto([W EXCEPT !.panic = TRUE], [x EXCEPT !.err = "panic"], "done")
     ELSE Goto([W EXCEPT !.l.writers[j + 1] = 0],
               [x EXCEPT !.idx = j, !.retired = old], "u6")

\* lines 632-636: Buffered() on a nil writer is a nil dereference
UpdateDrain(W, x) ==
  LET j == 1 - x.idx
      old == W.l.writers[j + 1]
  IN IF old = 0 THEN Goto([W EXCEPT !.panic = TRUE], [x EXCEPT !.err = "panic"], "done")
     ELSE Goto([BufFlush(W, old) EXCEPT !.l.writers[j + 1] = 0],
               [x EXCEPT !.idx = j, !.retired = old], "u6")

\* updateOutput as it would be if it closed the old file and kept its handle
\* in the slot
UpdateCloseKeepHandle(W, x) ==
  Goto(FileClose(W, W.l.files[x.idx + 1]), x, "lock")

\* lines 637-639
UpdateClose(W, x) ==
  Goto([FileClose(W, W.l.files[x.idx + 1]) EXCEPT !.l.files[x.idx + 1] = 0], x, "lock")

\* line 386, the load of l.writer
LogoutLoad(W, x) == Goto(W, [x EXCEPT !.w = W.l.writer], "w2")

\* lines 386-394: WriteString on a nil writer is a nil dereference
LogoutWrite(W, x) ==
  IF x.w = 0 THEN Goto([W EXCEPT !.panic = TRUE], [x EXCEPT !.err = "panic"], "done")
  ELSE LET r == WriteString(W, x.w, x.rid, x.size, 0)
       IN IF r.err THEN Goto(r.W, [x EXCEPT !.err = "write"], "done")
          ELSE Goto([r.W EXCEPT !.l.cumSize = @ + r.n],
                    [x EXCEPT !.crossed = W.l.cumSize < W.l.sizeLimit
                                          /\ W.l.cumSize + r.n >= W.l.sizeLimit],
                    "done")

\* one statement group of Logout at the label at
Step(W, x, at, t) ==
  CASE at = "start" -> LogoutStart(W, x)
    [] at = "need" -> LogoutNeed(W, x, t)
    [] at = "i1" -> InitPath(W, x, t)
    [] at = "i2" -> InitOpen(W, x)
    [] at = "i3" -> InitWriter(W, x)
    [] at = "u1" -> UpdateReset(W, x, t)
    [] at = "u2" -> UpdateSlot(W, x)
    [] at = "u3" -> UpdateOpen(W, x, t)
    [] at = "u4" -> UpdateWriter(W, x)
    [] at = "u5" -> UpdateDrain(W, x)
    [] at = "u6" -> UpdateClose(W, x)
    [] at = "lock" -> Goto(W, x, "w1")
    [] at = "w1" -> LogoutLoad(W, x)
    [] at = "w2" -> LogoutWrite(W, x)

\* a whole call of Logout by one thread, nothing running in between
RECURSIVE Run(_, _, _, _)
Run(W, x, at, t) ==
  IF at = "done" THEN [W |-> W, x |-> x]
  ELSE LET r == Step(W, x, at, t) IN Run(r.W, r.x, r.pc, t)

Logout(W, level, size, rid, ok, t) == Run(W, Locals(level, size, rid, ok), "start", t)

\* lines 303-317: Debug, Info, Warn and Error call Logout and have no result;
\* ret is what the caller gets back
Debug(W, size, rid, ok, t) ==
  Logout(W, DebugLevel, size, rid, ok, t) @@ [ret |-> "void"]

Info(W, size, rid, ok, t) ==
  Logout(W, InfoLevel, size, rid, ok, t) @@ [ret |-> "void"]

Warn(W, size, rid, ok, t) ==
  Logout(W, WarnLevel, size, rid, ok, t) @@ [ret |-> "void"]

Error(W, size, rid, ok, t) ==
  Logout(W, ErrorLevel, size, rid, ok, t) @@ [ret |-> "void"]

\* a direct call of Logout: the caller gets the error
Returning(r) == r @@ [ret |-> r.x.err]

LogoutCall(W, level, size, rid, ok, t) == Returning(Logout(W, level, size, rid, ok, t))

EntryPoints == {"Debug", "Info", "Warn", "Error", "Logout"}

EntryLevel(entry) ==
  CASE entry = "Debug" -> DebugLevel
    [] entry = "Info" -> InfoLevel
    [] entry = "Warn" -> WarnLevel
    [] entry = "Error" -> ErrorLevel
    [] OTHER -> DebugLevel

\* the call of an entry point; a direct Logout is called at DebugLevel
Entry(W, entry, size, rid, ok, t) ==
  CASE entry = "Debug" -> Debug(W, size, rid, ok, t)
    [] entry = "Info" -> Info(W, size, rid, ok, t)
    [] entry = "Warn" -> Warn(W, size, rid, ok, t)
    [] entry = "Error" -> Error(W, size, rid, ok, t)
    [] OTHER -> LogoutCall(W, DebugLevel, size, rid, ok, t)

\* Flush as it would be if it wrote the buffered bytes out and left them in
\* the buffer
FlushSlotKeepBuffer(W, i) ==
  LET V == [W EXCEPT !.l.writer = W.l.writers[i]]
      w == V.l.writers[i]
  IN IF V.l.files[i] = 0 THEN V
     ELSE FileClose(IF w # 0 THEN [BufFlush(V, w) EXCEPT !.wobj[w].buf = V.wobj[w].buf]
                    ELSE V,
                    V.l.files[i])

\* lines 642-652: l.writer is the loop variable and ends as writers[1]
FlushSlot(W, i) ==
  LET V == [W EXCEPT !.l.writer = W.l.writers[i]]
  IN IF V.l.files[i] = 0 THEN V
     ELSE FileClose(IF V.l.writers[i] # 0 THEN BufFlush(V, V.l.writers[i]) ELSE V,
                    V.l.files[i])

Flush(W) == FlushSlot(FlushSlot(W, 1), 2)

----------------------------------------------------------------------------
(* Options (src/options.go) *)

\* BasicOption(level, toConsole, toFile, fileInfo): the constructor stores
\* toFile in the field FileInfo
BasicOption(level, toConsole, toFile, fileInfo) ==
  [kind |-> "basic", Level |-> level, ToConsole |-> toConsole,
   ToFile |-> toFile, FileInfo |-> toFile]

DefaultOption(debugToFile, infoToFile) ==
  [kind |-> "default", debugToFile |-> debugToFile, infoToFile |-> infoToFile]

FolderOption(folder) == [kind |-> "folder", folder |-> folder]

UtcOption(utc) == [kind |-> "utc", utc |-> utc]

basicSetOption(L, t, o) ==
  LET s0 == L.outputs[o.Level]
      s1 == IF o.ToConsole THEN SetBit(s0, TOCONSOLE) ELSE ClearBit(s0, TOCONSOLE)
      s2 == IF o.ToFile THEN SetBit(s1, TOFILE) ELSE ClearBit(s1, TOFILE)
      s3 == IF o.FileInfo THEN SetBit(s2, FILEINFO) ELSE ClearBit(s2, FILEINFO)
      L1 == IF o.ToFile THEN SetShiftCondition(L, t, ShiftDayAndSize, 1, 5 * MB) ELSE L
  IN [L1 EXCEPT !.outputs[o.Level] = s3]

defaultSetOption(L, t, o) ==
  LET m == [lv \in LogLevels |->
              CASE lv = DebugLevel ->
                     IF o.debugToFile THEN SetBit(L.outputs[lv], TOFILE)
                     ELSE ClearBit(L.outputs[lv], TOFILE)
                [] lv = InfoLevel ->
                     IF o.infoToFile THEN SetBit(L.outputs[lv], TOFILE)
                     ELSE ClearBit(L.outputs[lv], TOFILE)
                [] OTHER -> SetBit(L.outputs[lv], TOFILE)]
  IN SetShiftCondition([L EXCEPT !.outputs = m], t, ShiftDayAndSize, 1, 10 * MB)

folderSetOption(L, o) == [L EXCEPT !.folder = o.folder]

\* whole hours only; the zone of utc = -4 is taken as a fixed zone too
setUtc(L, utc) == [L EXCEPT !.utc = utc]

utcSetOption(L, o) ==
  setUtc(L, IF o.utc < -12 THEN -12 ELSE IF o.utc > 14 THEN 14 ELSE o.utc)

SetOption(L, t, o) ==
  CASE o.kind = "basic" -> basicSetOption(L, t, o)
    [] o.kind = "default" -> defaultSetOption(L, t, o)
    [] o.kind = "folder" -> folderSetOption(L, o)
    [] o.kind = "utc" -> utcSetOption(L, o)

SetLogLevel(L, level) == [L EXCEPT !.level = level]

SetFolder(L, folder) == [L EXCEPT !.folder = folder]

\* lines 210-215 of src/logger.go: the options are applied in order
RECURSIVE SetOptions(_, _, _)
SetOptions(L, t, options) ==
  IF options = <<>> THEN L
  ELSE SetOptions(SetOption(L, t, Head(options)), t, Tail(options))

----------------------------------------------------------------------------
(* The registry (src/unnamed/part_002).  R.heap holds the loggers that     *)
(* SetLogger created, a *Logger is a position in it (0: nil), and          *)
(* R.loggerMap[idx] is the pointer registered under idx (0: no entry).     *)
(* R.handler is the position of the goroutine exitHandle: "starting"       *)
(* (started by init, not yet at the receive), "waiting" (blocked in        *)
(* <-exitChan), "received", "flushed" (Flush returned) and "exited" (after *)
(* os.Exit).  R.signals counts the signals delivered to the process,       *)
(* R.lost those that found no receiver on the unbuffered exitChan.         *)

\* lines 15-20: init
NewRegistry ==
  [loggerMap |-> [i \in Indexes |-> 0], heap |-> <<>>,
   handler |-> "starting", signals |-> 0, lost |-> 0]

\* SetLogger as it would be if it replaced the logger of a registered index
SetLoggerReplace(R, idx, loggerName, level, options) ==
  [R |-> [R EXCEPT !.heap = Append(@, newLogger(loggerName, level, options)),
                   !.loggerMap[idx] = Len(R.heap) + 1],
   ret |-> Len(R.heap) + 1]

\* lines 22-31
SetLogger(R, idx, loggerName, level, options) ==
  IF R.loggerMap[idx] # 0 THEN [R |-> R, ret |-> R.loggerMap[idx]]
  ELSE [R |-> [R EXCEPT !.heap = Append(@, newLogger(loggerName, level, options)),
                        !.loggerMap[idx] = Len(R.heap) + 1],
        ret |-> Len(R.heap) + 1]

\* lines 33-38
GetLogger(R, idx) == R.loggerMap[idx]

\* lines 40-45: Flush of every logger of the map, in the order of the range
\* (S has the heap of loggers and the world's heaps; ps are the pointers
\* still to visit)
RECURSIVE FlushAll(_, _)
FlushAll(S, ps) ==
  IF ps = {} THEN S
  ELSE LET p == CHOOSE q \in ps : TRUE
           W == Flush([l |-> S.heap[p], fobj |-> S.fobj, wobj |-> S.wobj,
                       fs |-> S.fs, panic |-> S.panic])
       IN FlushAll([heap |-> [S.heap EXCEPT ![p] = W.l], fobj |-> W.fobj,
                    wobj |-> W.wobj, fs |-> W.fs, panic |-> W.panic],
                   ps \ {p})

----------------------------------------------------------------------------
(* What the operations are called with *)

\* levels records are emitted at, and levels the threshold is set to
EmitLevels == {DebugLevel, WarnLevel}

\* arguments of SetShiftCondition: <<shiftType, times, size>>
ShiftConditions == { <<ShiftSize, 0, 4000>>, <<ShiftSecondAndSize, 30, 4000>> }

\* options given to SetOptions
Options == { BasicOption(DebugLevel, FALSE, TRUE, TRUE), FolderOption("log") }

\* arguments of SetShiftCondition with intervals and size limits in range,
\* out of range and not positive
TimeConditions ==
  { <<ShiftDay, 2, 0>>, <<ShiftDay, 106752, 0>>,
    <<ShiftHour, 3, 0>>, <<ShiftHour, 2562048, 0>>,
    <<ShiftSecond, 30, 0>>, <<ShiftSecondAndSize, 0, 0>> }

\* options given to SetOptions where the time zone matters
TimeOptions ==
  { BasicOption(DebugLevel, FALSE, TRUE, TRUE), FolderOption("log"), UtcOption(8) }

\* arguments of SetShiftCondition under which one record reaches the size
\* limit, with and without a deadline
RotConditions == { <<ShiftSecondAndSize, 30, 2000>>, <<ShiftSize, 0, 2000>> }

\* options that route the two emitted levels to a file
LevelOptions ==
  { FolderOption("log"), BasicOption(DebugLevel, TRUE, TRUE, FALSE),
    BasicOption(WarnLevel, FALSE, TRUE, FALSE) }

\* options that set the masks of all levels at once, and the folder
MaskOptions == { DefaultOption(FALSE, TRUE), FolderOption("log") }

\* the import paths of the packages that call the logger: main, a package
\* of a module whose name has no dot, and packages of modules on hosts with
\* one and two dots
PkgPaths ==
  { <<"main">>,
    <<"example", "/", "internal">>,
    <<"github", ".", "com", "/", "u", "/", "app">>,
    <<"my", ".", "host", ".", "io", "/", "x", "/", "app">> }

\* the callers: plain functions (no receiver) and methods
Callers == [pkg : PkgPaths, recv : {"", "(*T)"}, fn : {"Run"}]

\* option lists given to SetLogger and SetOptions
OptionLists ==
  { <<>>, <<FolderOption("log"), BasicOption(DebugLevel, FALSE, TRUE, TRUE)>> }

\* names given to SetLogger
LoggerNames == {"a", "b"}

\* options of every kind
AllOptions ==
  Options \cup { BasicOption(WarnLevel, TRUE, TRUE, FALSE),
                 BasicOption(DebugLevel, TRUE, FALSE, TRUE),
                 DefaultOption(FALSE, TRUE) }

----------------------------------------------------------------------------
(* History (not program state): g.emits counts the calls of Logout, the    *)
(* record of call number rid has g.recs[rid] bytes, g.sub are the records   *)
(* routed to a file, g.acc those whose Logout returned nil, g.failed says   *)
(* whether some Logout returned an error, g.errs are the kinds of error     *)
(* Logout has returned, g.rot counts the files opened by  *)
(* updateOutput, g.cross the writes that took cumSize from below the size   *)
(* limit to it or above, g.drained are the writers updateOutput has         *)
(* flushed, g.stale says whether a record was written to one of them,       *)
(* g.flushed whether Flush was called, g.flushes how many times,            *)
(* g.swapFailed whether os.OpenFile                                         *)
(* failed in some updateOutput, g.last describes the last operation (its    *)
(* openFailed: os.OpenFile was called and failed), g.cond are the arguments *)
(* of the last call of SetShiftCondition that the action SetCondition made  *)
(* (<<>> before the first).  After the action SetMask g.last.mask are the   *)
(* arguments BasicOption was called with.                                   *)

NoOp(op) ==
  [op |-> op, level |-> 0, size |-> 0, rid |-> 0, routed |-> FALSE, err |-> "none",
   echo |-> FALSE, status |-> 0, opened |-> 0, retired |-> 0, w |-> 0, openFailed |-> FALSE]

EmitOp(x, routed) ==
  [op |-> "emit", level |-> x.level, size |-> x.size, rid |-> x.rid, routed |-> routed,
   err |-> x.err, echo |-> x.echo, status |-> x.status, opened |-> x.opened, retired |-> x.retired,
   w |-> x.w, openFailed |-> x.tried /\ ~x.ok]

\* does the logger L route a record of this level to a file
Routed(L, level) == L.level <= level /\ HasBit(L.outputs[level], TOFILE)

Init ==
  /\ l = newLogger("glog", DebugLevel, <<>>)
  /\ fobj = <<>>
  /\ wobj = <<>>
  /\ fs = <<>>
  /\ now = Instants[1]
  /\ panic = FALSE
  /\ g = [emits |-> 0, recs |-> <<>>, sub |-> {}, acc |-> {}, failed |-> FALSE,
          errs |-> {}, cond |-> <<>>,
          rot |-> 0, cross |-> 0, drained |-> {}, stale |-> FALSE,
          flushed |-> FALSE, flushes |-> 0, swapFailed |-> FALSE, runs |-> 1,
          last |-> NoOp("new")]
  /\ pc = [t \in Threads |-> "idle"]
  /\ tl = [t \in Threads |-> [x |-> Locals(0, 0, 0, TRUE), routed |-> FALSE, n |-> 0]]
  /\ reg = NewRegistry
  /\ mu = 0

SetWorld(W) ==
  /\ l' = W.l
  /\ fobj' = W.fobj
  /\ wobj' = W.wobj
  /\ fs' = W.fs
  /\ panic' = W.panic

\* a call of Logout begins
Submitted(h, rid, size, routed) ==
  [h EXCEPT !.emits = rid, !.recs = Append(@, size),
            !.sub = IF routed THEN @ \cup {rid} ELSE @]

\* updateOutput has flushed the writer x.retired
Drained(h, x) ==
  [h EXCEPT !.drained = IF x.retired # 0 THEN @ \cup {x.retired} ELSE @]

\* the write of Logout is about to act on the writer x.w
Written(h, x) == [h EXCEPT !.stale = @ \/ x.w \in h.drained]

\* a call of Logout returns
Returned(h, x, routed) ==
  [h EXCEPT !.acc = IF routed /\ x.err = "none" THEN @ \cup {x.rid} ELSE @,
            !.failed = @ \/ x.err # "none",
            !.errs = IF x.err # "none" THEN @ \cup {x.err} ELSE @,
            !.rot = IF x.opened # 0 THEN @ + 1 ELSE @,
            !.cross = IF x.crossed THEN @ + 1 ELSE @,
            !.swapFailed = @ \/ (x.tried /\ ~x.ok /\ x.status # 0),
            !.last = EmitOp(x, routed)]

----------------------------------------------------------------------------
(* Operations of the single-threaded specification: each is a whole call *)

Emit(level, size, ok) ==
  /\ ~panic
  /\ g.emits < MaxEmits
  /\ LET rid == g.emits + 1
         routed == Routed(l, level)
         r == Logout(World, level, size, rid, ok, now)
     IN /\ SetWorld(r.W)
        /\ g' = Returned(Written(Drained(Submitted(g, rid, size, routed), r.x), r.x),
                         r.x, routed)
  /\ UNCHANGED <<now, pc, tl, mu, reg>>

Tick ==
  /\ ~panic
  /\ \E i \in 1..(Len(Instants) - 1) : now = Instants[i] /\ now' = Instants[i + 1]
  /\ g' = [g EXCEPT !.last = NoOp("tick")]
  /\ UNCHANGED <<l, fobj, wobj, fs, panic, pc, tl, mu, reg>>

Configure(L) ==
  /\ ~panic
  /\ l' = L
  /\ g' = [g EXCEPT !.last = NoOp("config")]
  /\ UNCHANGED <<fobj, wobj, fs, now, panic, pc, tl, mu, reg>>

CallSetShiftCondition(c) == Configure(SetShiftCondition(l, now, c[1], c[2], c[3]))

CallSetOptions(o) == Configure(SetOption(l, now, o))

CallSetFolder(f) == Configure(SetFolder(l, f))

CallSetLogLevel(lv) == Configure(SetLogLevel(l, lv))

\* a call of SetShiftCondition(c[1], c[2], c[3]) that g.cond remembers
SetCondition(c) ==
  /\ ~panic
  /\ l' = SetShiftCondition(l, now, c[1], c[2], c[3])
  /\ g' = [g EXCEPT !.cond = c, !.last = NoOp("shift")]
  /\ UNCHANGED <<fobj, wobj, fs, now, panic, pc, tl, mu, reg>>

CallFlush ==
  /\ ~panic
  /\ SetWorld(Flush(World))
  /\ g' = [g EXCEPT !.flushed = TRUE, !.flushes = @ + 1, !.last = NoOp("flush")]
  /\ UNCHANGED <<now, pc, tl, mu, reg>>

\* a call of SetOptions(BasicOption(level, toConsole, toFile, fileInfo))
SetMask(level, toConsole, toFile, fileInfo) ==
  /\ ~panic
  /\ l' = SetOption(l, now, BasicOption(level, toConsole, toFile, fileInfo))
  /\ g' = [g EXCEPT !.last = NoOp("mask")
                              @@ [mask |-> <<level, toConsole, toFile, fileInfo>>]]
  /\ UNCHANGED <<fobj, wobj, fs, now, panic, pc, tl, mu, reg>>

\* a call of Debug by the caller c; g.last also tells the caller and the
\* label Logout made for it
EmitFrom(c, size, ok) ==
  /\ ~panic
  /\ g.emits < MaxEmits
  /\ \E r \in {Logout(World, DebugLevel, size, g.emits + 1, ok, now)} :
       LET routed == Routed(l, DebugLevel)
           h == Returned(Written(Drained(Submitted(g, r.x.rid, size, routed), r.x), r.x),
                         r.x, routed)
       IN /\ SetWorld(r.W)
          /\ g' = [h EXCEPT !.last = @ @@ [caller |-> c, label |-> Label(FuncName(c))]]
  /\ UNCHANGED <<now, pc, tl, mu, reg>>

\* the process ends, with the package's Flush as exitHandle does it or
\* without (killed), and the program is started again over the same folder:
\* the files stay, the new process has a new logger and no handles.  g.runs
\* counts the runs; the rest of the history starts again.
Restart(flush) ==
  /\ g.runs < MaxRuns
  /\ g.emits > 0
  /\ fs' = IF flush /\ ~panic THEN Flush(World).fs ELSE fs
  /\ l' = newLogger("glog", DebugLevel, <<>>)
  /\ fobj' = <<>>
  /\ wobj' = <<>>
  /\ panic' = FALSE
  /\ g' = [emits |-> 0, recs |-> <<>>, sub |-> {}, acc |-> {}, failed |-> FALSE,
           errs |-> {}, cond |-> <<>>,
           rot |-> 0, cross |-> 0, drained |-> {}, stale |-> FALSE,
           flushed |-> FALSE, flushes |-> 0, swapFailed |-> FALSE, runs |-> g.runs + 1,
           last |-> NoOp("restart")]
  /\ UNCHANGED <<now, pc, tl, mu, reg>>

\* the process runs: it has not died and exitHandle has not called os.Exit
Running == ~panic /\ reg.handler # "exited"

\* a call of SetLogger(idx, loggerName, level, options...)
CallSetLogger(idx, loggerName, level, options) ==
  /\ Running
  /\ \E r \in {SetLogger(reg, idx, loggerName, level, options)} :
       /\ reg' = r.R
       /\ g' = [g EXCEPT !.last = NoOp("setlogger")
                            @@ [idx |-> idx, name |-> loggerName, lv |-> level,
                                options |-> options, ret |-> r.ret,
                                created |-> reg.loggerMap[idx] = 0]]
  /\ UNCHANGED <<l, fobj, wobj, fs, now, panic, pc, tl, mu>>

\* a call of GetLogger(idx)
CallGetLogger(idx) ==
  /\ Running
  /\ g' = [g EXCEPT !.last = NoOp("getlogger")
                            @@ [idx |-> idx, ret |-> GetLogger(reg, idx)]]
  /\ UNCHANGED <<l, fobj, wobj, fs, now, panic, pc, tl, mu, reg>>

\* a call of SetOptions(options...) on the logger registered under idx
CallSetOptionsOn(idx, options) ==
  /\ Running
  /\ GetLogger(reg, idx) # 0
  /\ reg' = [reg EXCEPT !.heap[GetLogger(reg, idx)] = SetOptions(@, now, options)]
  /\ g' = [g EXCEPT !.last = NoOp("config")]
  /\ UNCHANGED <<l, fobj, wobj, fs, now, panic, pc, tl, mu>>

\* a call of Debug on the logger registered under idx
EmitOn(idx, size) ==
  /\ Running
  /\ g.emits < MaxEmits
  /\ GetLogger(reg, idx) # 0
  /\ LET p == GetLogger(reg, idx)
         rid == g.emits + 1
         routed == Routed(reg.heap[p], DebugLevel)
     IN \E r \in {Logout([World EXCEPT !.l = reg.heap[p]], DebugLevel, size, rid, TRUE, now)} :
          /\ fobj' = r.W.fobj /\ wobj' = r.W.wobj /\ fs' = r.W.fs /\ panic' = r.W.panic
          /\ reg' = [reg EXCEPT !.heap[p] = r.W.l]
          /\ g' = Returned(Written(Drained(Submitted(g, rid, size, routed), r.x), r.x),
                           r.x, routed)
  /\ UNCHANGED <<l, now, pc, tl, mu>>

\* a signal is delivered: os/signal sends it on exitChan without blocking,
\* so with no buffer (line 17) it is dropped unless exitHandle is blocked in
\* the receive of line 49
Deliver ==
  /\ Running
  /\ reg.signals < MaxSignals
  /\ reg' = [reg EXCEPT !.signals = @ + 1,
                        !.handler = IF @ = "waiting" THEN "received" ELSE @,
                        !.lost = IF reg.handler = "waiting" THEN @ ELSE @ + 1]
  /\ g' = [g EXCEPT !.last = NoOp("signal")]
  /\ UNCHANGED <<l, fobj, wobj, fs, now, panic, pc, tl, mu>>

\* line 49: the goroutine started by init reaches the receive
HandlerWait ==
  /\ Running
  /\ reg.handler = "starting"
  /\ reg' = [reg EXCEPT !.handler = "waiting"]
  /\ g' = [g EXCEPT !.last = NoOp("handler")]
  /\ UNCHANGED <<l, fobj, wobj, fs, now, panic, pc, tl, mu>>

\* line 50: the package's Flush, called by exitHandle
HandlerFlush ==
  /\ Running
  /\ reg.handler = "received"
  /\ \E S \in {FlushAll([heap |-> reg.heap, fobj |-> fobj, wobj |-> wobj,
                          fs |-> fs, panic |-> panic],
                         {reg.loggerMap[i] : i \in Indexes} \ {0})} :
       /\ fobj' = S.fobj /\ wobj' = S.wobj /\ fs' = S.fs /\ panic' = S.panic
       /\ reg' = [reg EXCEPT !.heap = S.heap, !.handler = "flushed"]
  /\ g' = [g EXCEPT !.last = NoOp("handler")]
  /\ UNCHANGED <<l, now, pc, tl, mu>>

\* line 51: os.Exit(1)
HandlerExit ==
  /\ Running
  /\ reg.handler = "flushed"
  /\ reg' = [reg EXCEPT !.handler = "exited"]
  /\ g' = [g EXCEPT !.last = NoOp("handler")]
  /\ UNCHANGED <<l, fobj, wobj, fs, now, panic, pc, tl, mu>>

\* a call of Flush, one of at most MaxFlushes
FlushCall == g.flushes < MaxFlushes /\ CallFlush

\* a call of one of the entry points; g.last also tells the entry point and
\* what its caller got back
EmitVia(entry, size, ok) ==
  /\ ~panic
  /\ g.emits < MaxEmits
  /\ \E r \in {Entry(World, entry, size, g.emits + 1, ok, now)} :
       LET routed == Routed(l, EntryLevel(entry))
           h == Returned(Written(Drained(Submitted(g, r.x.rid, size, routed), r.x), r.x),
                         r.x, routed)
       IN /\ SetWorld(r.W)
          /\ g' = [h EXCEPT !.last = @ @@ [entry |-> entry, ret |-> r.ret]]
  /\ UNCHANGED <<now, pc, tl, mu, reg>>

\* the device under an open file fails: from now on writes to the handle
\* return an error
FileBreaks ==
  /\ ~panic
  /\ \E f \in 1..Len(fobj) :
        /\ ~fobj[f].closed /\ ~fobj[f].bad
        /\ fobj' = [fobj EXCEPT ![f].bad = TRUE]
  /\ g' = [g EXCEPT !.last = NoOp("break")]
  /\ UNCHANGED <<l, wobj, fs, now, panic, pc, tl, mu, reg>>

----------------------------------------------------------------------------
(* Operations of the concurrent specification: the threads call Logout and *)
(* run it one statement group at a time; l.mu is held by thread mu (0: by  *)
(* nobody).                                                                *)

\* the positions of a thread inside Logger.Flush: before the first and
\* before the second round of its loop
FlushLabels == {"f1", "f2"}

Begin(t, level, size, ok) ==
  /\ ~panic
  /\ ~g.flushed
  /\ pc[t] = "idle"
  /\ tl[t].n < MaxThreadEmits
  /\ LET rid == g.emits + 1
         routed == Routed(l, level)
     IN /\ tl' = [tl EXCEPT ![t] = [x |-> Locals(level, size, rid, ok),
                                    routed |-> routed, n |-> @.n + 1]]
        /\ g' = Submitted(g, rid, size, routed)
  /\ pc' = [pc EXCEPT ![t] = "start"]
  /\ UNCHANGED <<l, fobj, wobj, fs, now, panic, mu, reg>>

\* Logout as it would be if a return with an error kept l.mu locked
ThreadStepKeepLock(t) ==
  /\ ~panic
  /\ pc[t] \notin {"idle"} \cup FlushLabels
  /\ pc[t] = "lock" => mu = 0
  /\ \E r \in {Step(World, tl[t].x, pc[t], now)} :
     LET x == tl[t].x
         h == IF pc[t] = "w2" THEN Written(g, x) ELSE Drained(g, r.x)
     IN /\ SetWorld(r.W)
        /\ tl' = [tl EXCEPT ![t].x = r.x]
        /\ IF r.pc = "done"
           THEN /\ pc' = [pc EXCEPT ![t] = "idle"]
                /\ g' = Returned(h, r.x, tl[t].routed)
                /\ mu' = IF mu = t /\ r.x.err = "none" THEN 0 ELSE mu
           ELSE /\ pc' = [pc EXCEPT ![t] = r.pc]
                /\ g' = h
                /\ mu' = IF pc[t] = "lock" THEN t ELSE mu
  /\ UNCHANGED <<now, reg>>

ThreadStep(t) ==
  /\ ~panic
  /\ pc[t] \notin {"idle"} \cup FlushLabels
  /\ pc[t] = "lock" => mu = 0
  /\ \E r \in {Step(World, tl[t].x, pc[t], now)} :
     LET x == tl[t].x
         h == IF pc[t] = "w2" THEN Written(g, x) ELSE Drained(g, r.x)
     IN /\ SetWorld(r.W)
        /\ tl' = [tl EXCEPT ![t].x = r.x]
        /\ IF r.pc = "done"
           THEN /\ pc' = [pc EXCEPT ![t] = "idle"]
                /\ g' = Returned(h, r.x, tl[t].routed)
                /\ mu' = IF mu = t THEN 0 ELSE mu
           ELSE /\ pc' = [pc EXCEPT ![t] = r.pc]
                /\ g' = h
                /\ mu' = IF pc[t] = "lock" THEN t ELSE mu
  /\ UNCHANGED <<now, reg>>

\* thread t calls Flush (the goroutine exitHandle does, through the package's
\* Flush); Flush takes no lock
BeginFlush(t) ==
  /\ ~panic
  /\ ~g.flushed
  /\ pc[t] = "idle"
  /\ pc' = [pc EXCEPT ![t] = "f1"]
  /\ g' = [g EXCEPT !.last = NoOp("flushing")]
  /\ UNCHANGED <<l, fobj, wobj, fs, now, panic, tl, mu, reg>>

\* one round of the loop of Flush, lines 644-651
FlushStep(t) ==
  /\ ~panic
  /\ pc[t] \in FlushLabels
  /\ IF pc[t] = "f1"
     THEN /\ SetWorld(FlushSlot(World, 1))
          /\ pc' = [pc EXCEPT ![t] = "f2"]
          /\ g' = [g EXCEPT !.last = NoOp("flushing")]
     ELSE /\ SetWorld(FlushSlot(World, 2))
          /\ pc' = [pc EXCEPT ![t] = "idle"]
          /\ g' = [g EXCEPT !.flushed = TRUE, !.flushes = @ + 1, !.last = NoOp("flush")]
  /\ UNCHANGED <<now, tl, mu, reg>>

\* the final Flush, when every thread has made all its calls
FinalFlush ==
  /\ ~g.flushed
  /\ \A t \in Threads : pc[t] = "idle" /\ tl[t].n = MaxThreadEmits
  /\ CallFlush

Next ==
  \/ \E lv \in EmitLevels, n \in RecSizes, ok \in BOOLEAN : Emit(lv, n, ok)
  \/ Tick
  \/ \E c \in ShiftConditions : CallSetShiftCondition(c)
  \/ \E o \in Options : CallSetOptions(o)

Spec == Init /\ [][Next]_vars


\* every configuration call and every kind of emit, with no rotation in view
NextCfg ==
  \/ \E lv \in EmitLevels, ok \in BOOLEAN : Emit(lv, 40, ok)
  \/ \E c \in ShiftConditions : CallSetShiftCondition(c)
  \/ \E o \in AllOptions : CallSetOptions(o)
  \/ \E f \in Folders : CallSetFolder(f)
  \/ \E lv \in EmitLevels : CallSetLogLevel(lv)

SpecCfg == Init /\ [][NextCfg]_vars

\* every entry point, with opens and writes that may fail
NextIO ==
  \/ \E e \in EntryPoints, ok \in BOOLEAN : EmitVia(e, 2100, ok)
  \/ \E o \in Options : CallSetOptions(o)
  \/ \E n \in {2000, 4000} : CallSetShiftCondition(<<ShiftSize, 0, n>>)
  \/ FileBreaks

SpecIO == Init /\ [][NextIO]_vars

\* rotation conditions of every kind, time zones and the clock; the logger is
\* configured before it is used
NextTime ==
  \/ g.emits = 0 /\ \E c \in TimeConditions : SetCondition(c)
  \/ g.emits = 0 /\ \E o \in TimeOptions : CallSetOptions(o)
  \/ Tick
  \/ Emit(DebugLevel, 40, TRUE)

SpecTime == Init /\ [][NextTime]_vars

\* rotations for the time and for the size, one after the other
NextRot ==
  \/ \E n \in RecSizes, ok \in BOOLEAN : Emit(DebugLevel, n, ok)
  \/ Tick
  \/ \E c \in RotConditions : CallSetShiftCondition(c)
  \/ \E o \in Options : CallSetOptions(o)

SpecRot == Init /\ [][NextRot]_vars

\* records below, at and above a threshold that changes
NextLevel ==
  \/ \E lv \in EmitLevels : Emit(lv, 2100, TRUE)
  \/ \E lv \in EmitLevels : CallSetLogLevel(lv)
  \/ \E o \in LevelOptions : CallSetOptions(o)
  \/ CallSetShiftCondition(<<ShiftSize, 0, 2000>>)

SpecLevel == Init /\ [][NextLevel]_vars

\* the masks of the levels, set in every combination
NextMask ==
  \/ \E lv \in EmitLevels, c \in BOOLEAN, f \in BOOLEAN, i \in BOOLEAN : SetMask(lv, c, f, i)
  \/ \E o \in MaskOptions : CallSetOptions(o)
  \/ CallSetShiftCondition(<<ShiftSize, 0, 4000>>)
  \/ Emit(DebugLevel, 40, TRUE)

SpecMask == Init /\ [][NextMask]_vars

\* records emitted by callers of every kind
NextLabel ==
  \/ \E c \in Callers, ok \in BOOLEAN : EmitFrom(c, 40, ok)
  \/ \E o \in Options : CallSetOptions(o)

SpecLabel == Init /\ [][NextLabel]_vars

\* first-time creation in a folder that holds the files of an earlier run
NextInit ==
  \/ \E ok \in BOOLEAN : Emit(DebugLevel, 2100, ok)
  \/ \E o \in Options : CallSetOptions(o)
  \/ \E c \in ShiftConditions : CallSetShiftCondition(c)
  \/ \E flush \in BOOLEAN : Restart(flush)

SpecInit == Init /\ [][NextInit]_vars

\* Flush, called at any time and more than once, and emits after it
NextLife ==
  \/ \E ok \in BOOLEAN : Emit(DebugLevel, 2100, ok)
  \/ \E o \in Options : CallSetOptions(o)
  \/ CallSetShiftCondition(<<ShiftSize, 0, 2000>>)
  \/ FileBreaks
  \/ FlushCall

SpecLife == Init /\ [][NextLife]_vars

\* concurrent emits under fair scheduling: every thread that can take a step
\* of Logout again and again (sync.Mutex hands the lock to a waiter) takes
\* it; the records are larger than the buffer and devices fail under open files
NextLock ==
  \/ g.emits = 0 /\ \E o \in Options : CallSetOptions(o)
  \/ \E t \in Threads : tl[t].n < MaxFairEmits /\ Begin(t, DebugLevel, 5000, TRUE)
  \/ \E t \in Threads : ThreadStep(t)
  \/ FileBreaks

SpecLock ==
  Init /\ [][NextLock]_vars /\ \A t \in Threads : SF_pc(ThreadStep(t))

\* the registry: loggers are registered, looked up, configured and used
NextReg ==
  \/ \E idx \in Indexes, n \in LoggerNames, lv \in {DebugLevel, WarnLevel},
        os \in OptionLists : CallSetLogger(idx, n, lv, os)
  \/ \E idx \in Indexes : CallGetLogger(idx)
  \/ \E idx \in Indexes, os \in OptionLists : CallSetOptionsOn(idx, os)
  \/ \E idx \in Indexes : EmitOn(idx, 2100)

SpecReg == Init /\ [][NextReg]_vars

\* the registry and the exit signals: the goroutine exitHandle is scheduled
\* whenever it can take a step; nothing obliges a signal to come
NextSig ==
  \/ \E idx \in Indexes : CallSetLogger(idx, "a", DebugLevel, <<>>)
  \/ \E idx \in Indexes, os \in OptionLists : CallSetOptionsOn(idx, os)
  \/ \E idx \in Indexes : EmitOn(idx, 2100)
  \/ Deliver
  \/ HandlerWait
  \/ HandlerFlush
  \/ HandlerExit

SpecSig ==
  /\ Init /\ [][NextSig]_vars
  /\ WF_reg(HandlerWait) /\ WF_reg(HandlerFlush) /\ WF_reg(HandlerExit)

\* the logger is configured, then thread 1 emits while thread 2 runs Flush
NextExit ==
  \/ g.emits = 0 /\ \E o \in Options : CallSetOptions(o)
  \/ g.emits = 0 /\ CallSetShiftCondition(<<ShiftSize, 0, 4000>>)
  \/ Begin(1, DebugLevel, 2100, TRUE)
  \/ ThreadStep(1)
  \/ BeginFlush(2)
  \/ FlushStep(2)

SpecExit == Init /\ [][NextExit]_vars

\* the logger is configured, then the threads emit, then Flush is called
NextMT ==
  \/ g.emits = 0 /\ \E o \in Options : CallSetOptions(o)
  \/ g.emits = 0 /\ CallSetShiftCondition(<<ShiftSize, 0, 4000>>)
  \/ \E t \in Threads : Begin(t, DebugLevel, 2100, TRUE)
  \/ \E t \in Threads : ThreadStep(t)
  \/ FinalFlush

SpecMT == Init /\ [][NextMT]_vars

----------------------------------------------------------------------------
(* What the properties speak of *)

\* the bytes of record rid in the content c
RECURSIVE BytesOf(_, _)
BytesOf(c, rid) ==
  IF c = <<>> THEN 0
  ELSE (IF c[1][1] = rid THEN c[1][2] ELSE 0) + BytesOf(Tail(c), rid)

\* the bytes of record rid in the files ps of the folder
RECURSIVE DiskBytesOf(_, _)
DiskBytesOf(ps, rid) ==
  IF ps = {} THEN 0
  ELSE LET p == CHOOSE q \in ps : TRUE
       IN BytesOf(fs[p], rid) + DiskBytesOf(ps \ {p}, rid)

\* the bytes of record rid still buffered in the active writer
ActiveBytesOf(rid) == IF l.writer = 0 THEN 0 ELSE BytesOf(wobj[l.writer].buf, rid)

\* the bytes of record rid in all files and in the active writer
Kept(rid) == DiskBytesOf(DOMAIN fs, rid) + ActiveBytesOf(rid)

\* the step is a whole call of Logout
EmitStep == g'.emits = g.emits + 1 /\ g'.last.op = "emit"

SizeTrigger(L) == L.shiftType \in SizeTypes /\ L.sizeLimit > 0

----------------------------------------------------------------------------
(* Claims *)

\* C1: in single-threaded use, as long as no emit has failed, every record
\* routed to a file is there in full, on disk or in the buffer of the active
\* writer, no other record is there, and no writer but the active one holds
\* buffered bytes: a rotation has flushed the old writer before closing it.
C1_NoByteLoss ==
  (~g.failed /\ ~panic) =>
     /\ \A rid \in 1..g.emits : Kept(rid) = IF rid \in g.sub THEN g.recs[rid] ELSE 0
     /\ \A w \in 1..Len(wobj) : w # l.writer => wobj[w].buf = <<>>
     /\ \A f \in 1..Len(fobj) :
          ~fobj[f].closed <=> (l.writer # 0 /\ wobj[l.writer].f = f)

\* C1 witness: a size-triggered rotation has just moved the output; the file
\* that was active holds records on disk and the new writer has buffered one.
C1_Witness ==
  /\ ~g.failed
  /\ g.last.op = "emit" /\ g.last.status = 1 /\ g.last.opened # 0
  /\ fs[fobj[wobj[g.last.retired].f].path] # <<>>
  /\ wobj[l.writer].buf # <<>>
  /\ fobj[wobj[l.writer].f].path # fobj[wobj[g.last.retired].f].path

C6_DecisionBeforeAppend ==
  [][ /\ ( ( /\ EmitStep
             /\ g'.last.routed
             /\ l.outputInited
             /\ SizeTrigger(l)
             /\ l.cumSize < l.sizeLimit
             /\ g'.last.status # 2 )
           => ( /\ g'.last.err = "none"
                /\ l'.writer = l.writer
                /\ fobj' = fobj
                /\ BytesOf(wobj'[l.writer].buf, g'.last.rid)
                     + BytesOf(fs'[fobj[wobj[l.writer].f].path], g'.last.rid)
                   = g'.last.size
                /\ l'.cumSize = l.cumSize + g'.last.size ) )
      /\ ( (SizeTrigger(l') /\ l'.cumSize >= l'.sizeLimit)
           => \E rid \in g'.acc : /\ \A r \in g'.acc : r <= rid
                                  /\ l'.cumSize - g'.recs[rid] < l'.sizeLimit ) ]_vars

\* C6 witness: the record that took the counter over the limit went to the
\* file that already held an earlier record, and no rotation happened.
C6_Witness ==
  /\ g.last.op = "emit" /\ g.last.status = 0 /\ g.last.err = "none" /\ g.last.routed
  /\ SizeTrigger(l)
  /\ l.cumSize >= l.sizeLimit
  /\ l.cumSize > g.last.size
  /\ g.rot = 0

\* every record whose emit returned nil is there in full
AcceptedKept == \A rid \in g.acc : Kept(rid) = g.recs[rid]

\* C7: when os.OpenFile fails during a rotation the emit returns an error and
\* the slots, the active writer, its buffered bytes, the open handle and the
\* files on disk are as before; an emit routed to a file whose open does not
\* fail returns nil; and every record accepted so far stays there in full.
C7_FailedSwapKeepsOldSlot ==
  [][ EmitStep =>
        /\ ( (g'.last.openFailed /\ l.outputInited)
             => ( /\ g'.last.err = "open"
                  /\ l'.writer = l.writer
                  /\ l'.writers = l.writers
                  /\ l'.files = l.files
                  /\ l'.outputInited
                  /\ wobj' = wobj
                  /\ fobj' = fobj
                  /\ fs' = fs ) )
        /\ ( (g'.last.routed /\ ~g'.last.openFailed /\ l.folder # "")
             => (g'.last.err = "none" /\ g'.last.rid \in g'.acc) )
        /\ AcceptedKept' ]_vars

\* C7 witness: after a failed swap that left unflushed bytes in the old
\* writer, a later emit routed to a file has returned nil.
C7_Witness ==
  /\ g.swapFailed
  /\ g.last.op = "emit" /\ g.last.routed /\ g.last.err = "none"
  /\ g.rot = 0
  /\ Cardinality(g.acc) >= 2

\* C8 as claimed: a rotation whose open fails leaves the logger, the writers
\* and the files exactly as they were before the emit.
C8_FailedSwapChangesNothing ==
  [][ (EmitStep /\ g'.last.openFailed /\ l.outputInited)
      => (l' = l /\ wobj' = wobj /\ fobj' = fobj /\ fs' = fs) ]_vars

\* the step is a call of Logout for a record routed to a file
RoutedEmitStep == EmitStep /\ g'.last.routed

\* no file, handle or writer is created and the output fields of l are kept
OutputUntouched ==
  /\ fobj' = fobj /\ wobj' = wobj /\ fs' = fs
  /\ l'.outputInited = l.outputInited
  /\ l'.files = l.files /\ l'.writers = l.writers /\ l'.writer = l.writer

C10_UnroutedEmitTouchesNothing ==
  [][ (EmitStep /\ ~HasBit(l.outputs[g'.last.level], TOFILE))
      => (l' = l /\ fobj' = fobj /\ wobj' = wobj /\ fs' = fs) ]_vars

\* C10 witness: a record was emitted at a level without the file bit while
\* the counter was at or over the size limit, and nothing rotated.
C10_Witness ==
  /\ g.last.op = "emit" /\ ~g.last.routed
  /\ l.level <= g.last.level
  /\ ~HasBit(l.outputs[g.last.level], TOFILE)
  /\ l.outputInited
  /\ SizeTrigger(l) /\ l.cumSize >= l.sizeLimit
  /\ whetherNeedUpdateOutputs(l, now) # 0
  /\ g.rot = 0

\* C11: an emit routed to a file on an uninitialized logger with no folder set
\* returns the configuration error and leaves the logger, the handles, the
\* writers and the files as they were (nothing is created, nothing written,
\* outputInited stays false); with the folder set, the next routed emit whose
\* open succeeds creates the file, becomes initialized and keeps its record
\* in full in the new writer or its file.
C11_NoFolderIsConfigError ==
  [][ /\ (RoutedEmitStep /\ ~l.outputInited /\ l.folder = "")
           => /\ g'.last.err = "config"
              /\ l' = l /\ fobj' = fobj /\ wobj' = wobj /\ fs' = fs
              /\ g'.acc = g.acc
      /\ (RoutedEmitStep /\ ~l.outputInited /\ l.folder # "" /\ ~g'.last.openFailed)
           => /\ g'.last.err = "none"
              /\ l'.outputInited
              /\ Len(fobj') = Len(fobj) + 1
              /\ fobj'[Len(fobj')].path.folder = l.folder
              /\ wobj'[l'.writer].f = Len(fobj')
              /\ BytesOf(wobj'[l'.writer].buf, g'.last.rid)
                   + BytesOf(fs'[fobj'[Len(fobj')].path], g'.last.rid) = g'.last.size ]_vars

\* C11 witness: a routed emit failed for want of a folder and no open has
\* ever failed; the folder was then set and the next routed emit created the
\* file and wrote its record.
C11_Witness ==
  /\ g.errs = {"config"}
  /\ g.last.op = "emit" /\ g.last.routed /\ g.last.err = "none"
  /\ g.acc = {g.last.rid}
  /\ l.outputInited /\ l.folder # ""
  /\ Len(fobj) = 1 /\ Kept(g.last.rid) = g.last.size

\* C12 as claimed: whatever the entry point, when Logout raised an error the
\* caller of the entry point gets that error back.
C12_EntryPointsReturnError ==
  (g.last.op = "emit" /\ g.last.err # "none") => g.last.ret = g.last.err

\* C13: in single-threaded use, with opens that fail and devices that fail
\* under open files (so that writes and flushes fail), no call of an entry
\* point dereferences a nil writer: every call returns, with nil or an error.
C13_NoPanicOnIOFailure == ~panic

\* C13 witness: a first-time creation failed, a later emit created the file,
\* a swap failed or a write failed after that, and the last call returned its
\* error without a panic.
C13_Witness ==
  /\ ~panic
  /\ g.last.op = "emit" /\ g.last.err \in {"open", "write"}
  /\ g.errs = {"open", "write"}
  /\ g.acc # {}
  /\ l.outputInited

\* the step is the call SetShiftCondition(g'.cond[1], g'.cond[2], g'.cond[3])
ShiftStep == g'.last.op = "shift" /\ g'.cond # <<>>

\* the condition last set by SetCondition is still the one in force
CondInForce ==
  /\ g.cond # <<>>
  /\ l.shiftType = g.cond[1]
  /\ (g.cond[1] \in TimeTypes =>
        l.timeInterval = IF g.cond[2] <= 0 THEN -1
                         ELSE IF g.cond[1] \in SecondTypes THEN g.cond[2]
                         ELSE l.timeInterval)
  /\ (g.cond[1] \in SizeTypes => l.sizeLimit = g.cond[3])

\* C14 as claimed: a day (hour) interval over the maximum is stored as the
\* maximum, and the deadline is not before its anchor, the last midnight
\* (full hour) of the zone.
C14_IntervalClampedToMax ==
  [][ /\ (ShiftStep /\ g'.cond[1] \in DayTypes /\ g'.cond[2] > MaxDays)
           => /\ l'.timeInterval = MaxDays
              /\ ~After(LocalMidnight(now, l.utc), l'.date)
      /\ (ShiftStep /\ g'.cond[1] \in HourTypes /\ g'.cond[2] > MaxHours)
           => /\ l'.timeInterval = MaxHours
              /\ ~After(LocalHourStart(now, l.utc), l'.date) ]_vars

\* C15 as claimed: for a day (hour) interval N from 1 to the maximum, the
\* deadline after SetShiftCondition and after a time-triggered rotation is
\* the last midnight (full hour) of the zone plus N days (hours).
C15_DeadlineIsAnchorPlusN ==
  [][ /\ (ShiftStep /\ g'.cond[1] \in DayTypes /\ 1 <= g'.cond[2] /\ g'.cond[2] <= MaxDays)
           => l'.date = AddDays(LocalMidnight(now, l.utc), g'.cond[2])
      /\ (ShiftStep /\ g'.cond[1] \in HourTypes /\ 1 <= g'.cond[2] /\ g'.cond[2] <= MaxHours)
           => l'.date = AddHours(LocalHourStart(now, l.utc), g'.cond[2])
      /\ (EmitStep /\ g'.last.status = 2 /\ CondInForce /\ g.cond[1] \in DayTypes
             /\ 1 <= g.cond[2] /\ g.cond[2] <= MaxDays)
           => l'.date = AddDays(LocalMidnight(now, l.utc), g.cond[2])
      /\ (EmitStep /\ g'.last.status = 2 /\ CondInForce /\ g.cond[1] \in HourTypes
             /\ 1 <= g.cond[2] /\ g.cond[2] <= MaxHours)
           => l'.date = AddHours(LocalHourStart(now, l.utc), g.cond[2]) ]_vars

\* C16 as claimed: while a condition set with a time-including kind and an
\* interval <= 0 is in force, no emit routed to a file finds the deadline
\* passed and rotates for it.
C16_NonPositiveIntervalDisables ==
  [][ (RoutedEmitStep /\ CondInForce /\ g.cond[1] \in TimeTypes /\ g.cond[2] <= 0)
      => g'.last.status # 2 ]_vars

\* C17 as claimed: while a condition set with a size-including kind and a
\* size limit <= 0 is in force, no emit routed to a file rotates for the size.
C17_NonPositiveLimitDisables ==
  [][ (RoutedEmitStep /\ CondInForce /\ g.cond[1] \in SizeTypes /\ g.cond[3] <= 0)
      => g'.last.status # 1 ]_vars

\* C18 as claimed: with a day trigger and an interval that does not overflow,
\* the deadline is a midnight of the zone the logger is set to.
C18_DeadlineAtLocalMidnight ==
  (l.shiftType \in DayTypes /\ 0 < l.timeInterval /\ l.timeInterval <= MaxDays)
    => LocalMidnight(l.date, l.utc) = l.date

\* C19 as claimed: with a second trigger of interval S, a time-triggered
\* rotation moves the deadline by a whole multiple of S.
C19_DeadlineStepsByInterval ==
  [][ (EmitStep /\ g'.last.status = 2 /\ l.shiftType \in SecondTypes /\ l.timeInterval > 0)
      => Seconds(l.date, l'.date) % l.timeInterval = 0 ]_vars

\* C20: with a combined trigger, an emit that rotates for the size leaves the
\* deadline, the interval, the kind and the size limit as they were and
\* restarts the counter (it ends as the length of the emitted record); an
\* emit changes the deadline only when it rotates for the time.
C20_SizeRotationKeepsDeadline ==
  [][ EmitStep =>
        /\ (g'.last.status = 1 /\ l.shiftType \in SizeTypes \cap TimeTypes)
             => /\ l'.date = l.date
                /\ l'.timeInterval = l.timeInterval
                /\ l'.shiftType = l.shiftType
                /\ l'.sizeLimit = l.sizeLimit
                /\ g'.last.err = "none" => l'.cumSize = g'.last.size
                /\ g'.last.err # "none" => l'.cumSize = 0
        /\ (l'.date # l.date => g'.last.status = 2) ]_vars

\* C20 witness: with a seconds-and-size trigger whose deadline was set at an
\* earlier instant and has not passed, an emit has rotated for the size.
C20_Witness ==
  /\ g.last.op = "emit" /\ g.last.status = 1 /\ g.last.opened # 0
  /\ l.shiftType = ShiftSecondAndSize /\ l.timeInterval > 0
  /\ ~After(now, l.date)
  /\ l.date # AddSeconds(now, l.timeInterval)

\* the paths of the files this logger has opened
UsedPaths == {fobj[f].path : f \in 1..Len(fobj)}

\* the step is a call of Logout in which updateOutput opened a file
RotationStep == EmitStep /\ g'.last.opened # 0

\* C21 as claimed: a rotation for the size that stays in the time period of
\* the active file (the new file name has the time stamp of the active one)
\* opens a file whose name this logger has not used before, the active file's
\* name included.
C21_RotationTakesFreshName ==
  [][ (RotationStep /\ g'.last.status = 1 /\ l.writer # 0
         /\ fobj'[g'.last.opened].path.ts = fobj[wobj[l.writer].f].path.ts)
      => fobj'[g'.last.opened].path \notin UsedPaths ]_vars

\* the counter is under the size limit, if the trigger has one
UnderLimit(L) == L.shiftType \in SizeTypes => L.cumSize < L.sizeLimit

\* the deadline is not passed at the instant t, if the trigger has one
BeforeDeadline(L, t) == L.shiftType \in TimeTypes => ~After(t, L.date)

\* C22: in single-threaded use, an emit routed to a file that finds the
\* logger initialized, the counter under the size limit and the deadline not
\* passed does not rotate: it opens nothing, keeps the slots and the active
\* writer and appends its record to that writer; and as long as no rotation
\* has occurred, the logger has opened one file only, the one of the
\* first-time creation, and every accepted record is in it or in its writer.
C22_NoRotationUnderLimit ==
  [][ /\ (RoutedEmitStep /\ l.outputInited /\ UnderLimit(l) /\ BeforeDeadline(l, now))
           => /\ g'.last.status = 0 /\ g'.last.err = "none"
              /\ g'.rot = g.rot
              /\ fobj' = fobj /\ DOMAIN fs' = DOMAIN fs
              /\ l'.files = l.files /\ l'.writers = l.writers /\ l'.writer = l.writer
              /\ BytesOf(wobj'[l.writer].buf, g'.last.rid)
                   + BytesOf(fs'[fobj[wobj[l.writer].f].path], g'.last.rid) = g'.last.size
      /\ (l'.outputInited /\ g'.rot = 0)
           => /\ Len(fobj') = 1 /\ DOMAIN fs' = {fobj'[1].path}
              /\ l'.writer = 1 /\ wobj'[1].f = 1 /\ ~fobj'[1].closed
              /\ \A rid \in g'.acc :
                   BytesOf(wobj'[1].buf, rid) + BytesOf(fs'[fobj'[1].path], rid)
                   = g'.recs[rid] ]_vars

\* C22 witness: with a seconds-and-size trigger, three records were emitted
\* while the counter stayed under the limit and the deadline was not passed;
\* there is one file.
C22_Witness ==
  /\ g.last.op = "emit" /\ g.last.routed /\ g.last.status = 0
  /\ Cardinality(g.acc) = MaxEmits
  /\ l.shiftType = ShiftSecondAndSize
  /\ UnderLimit(l) /\ BeforeDeadline(l, now)
  /\ g.rot = 0 /\ Len(fobj) = 1 /\ Cardinality(DOMAIN fs) = 1

\* C23: in every state that a call of Flush leaves, one more call of Flush
\* changes nothing: the logger, the handles, the writers and the files stay
\* as they are (no byte is written) and nothing fails.
C23_FlushIdempotent ==
  g.last.op = "flush" => (Flush(World) = World /\ ~panic)

\* C23 witness: Flush was called twice in a row on a logger whose writer held
\* a record; the record is in the file, the file is closed and no writer
\* holds bytes.
C23_Witness ==
  /\ g.flushes = 2 /\ g.last.op = "flush"
  /\ g.acc # {}
  /\ \A rid \in g.acc : DiskBytesOf(DOMAIN fs, rid) = g.recs[rid]
  /\ \A f \in 1..Len(fobj) : fobj[f].closed
  /\ \A w \in 1..Len(wobj) : wobj[w].buf = <<>>

\* both slots are empty
SlotsEmpty(L) == L.files = <<0, 0>> /\ L.writers = <<0, 0>>

\* C24 as claimed: once Flush was called both slots are empty, and no later
\* operation opens a file, appends bytes to a file or fails on a nil writer.
C24_ClosedIsTerminal ==
  [][ g'.flushed => /\ SlotsEmpty(l')
                    /\ g.flushed => (fobj' = fobj /\ fs' = fs /\ ~panic') ]_vars

\* C25: an emit below the threshold prints nothing on the console, returns
\* nil and leaves the logger, the handles, the writers and the files as they
\* were (no first-time creation, no rotation, no write), whatever the masks
\* and the rotation condition; an emit at or above the threshold is printed on
\* the console exactly when its level has the console bit and, when its level
\* has the file bit and the folder is set, is written to the active writer.
C25_BelowThresholdIsNoOp ==
  [][ EmitStep =>
        /\ g'.last.level < l.level
             => /\ l' = l /\ fobj' = fobj /\ wobj' = wobj /\ fs' = fs
                /\ ~g'.last.echo /\ g'.last.err = "none" /\ g'.acc = g.acc
        /\ g'.last.level >= l.level
             => /\ g'.last.echo <=> HasBit(l.outputs[g'.last.level], TOCONSOLE)
                /\ (HasBit(l.outputs[g'.last.level], TOFILE) /\ l.folder # "")
                     => /\ g'.last.err = "none"
                        /\ l'.writer # 0
                        /\ BytesOf(wobj'[l'.writer].buf, g'.last.rid)
                             + BytesOf(fs'[fobj'[wobj'[l'.writer].f].path], g'.last.rid)
                           = g'.last.size ]_vars

\* C25 witness: the threshold was raised over the level of a record whose
\* mask has the console bit and the file bit; the logger is initialized and
\* the size limit is reached, and the emit of the record did nothing.
C25_Witness ==
  /\ g.last.op = "emit" /\ g.last.level < l.level
  /\ HasBit(l.outputs[g.last.level], TOFILE)
  /\ HasBit(l.outputs[g.last.level], TOCONSOLE)
  /\ l.outputInited /\ l.folder # ""
  /\ whetherNeedUpdateOutputs(l, now) = 1
  /\ g.rot = 0 /\ ~g.last.echo /\ g.emits >= 2

\* C26 as claimed: after BasicOption(level, toConsole, toFile, fileInfo) was
\* applied, the mask of the level has the console bit exactly if toConsole,
\* the file bit exactly if toFile and the file-info bit exactly if fileInfo.
C26_MaskReadBack ==
  g.last.op = "mask" =>
     LET m == l.outputs[g.last.mask[1]]
     IN /\ HasBit(m, TOCONSOLE) <=> g.last.mask[2]
        /\ HasBit(m, TOFILE) <=> g.last.mask[3]
        /\ HasBit(m, FILEINFO) <=> g.last.mask[4]

\* C27 as claimed: applying BasicOption for one level leaves the masks of the
\* other levels, the trigger kind, the interval, the size limit, the deadline
\* and the counter as they were.
C27_MaskChangeKeepsCondition ==
  [][ g'.last.op = "mask" =>
        /\ \A lv \in LogLevels \ {g'.last.mask[1]} : l'.outputs[lv] = l.outputs[lv]
        /\ l'.shiftType = l.shiftType
        /\ l'.timeInterval = l.timeInterval
        /\ l'.sizeLimit = l.sizeLimit
        /\ l'.date = l.date
        /\ l'.cumSize = l.cumSize ]_vars

\* C28 as claimed: in a logger as newLogger made it, the masks of Debug and
\* Info have the console bit and not the file bit, and the masks of Warn and
\* Error have the file bit, the file-info bit and the line-info bit.
C28_DefaultMasksBySeverity ==
  g.last.op = "new" =>
     /\ \A lv \in {DebugLevel, InfoLevel} :
          HasBit(l.outputs[lv], TOCONSOLE) /\ ~HasBit(l.outputs[lv], TOFILE)
     /\ \A lv \in {WarnLevel, ErrorLevel} :
          /\ HasBit(l.outputs[lv], TOFILE)
          /\ HasBit(l.outputs[lv], FILEINFO)
          /\ HasBit(l.outputs[lv], LINEINFO)

\* the last segment of an import path
LastSegment(path) == LET segs == Split(path, "/") IN segs[Len(segs)]

\* C29 as claimed: the package token of the label of a record is the last
\* segment of the import path of the caller's package, and the function token
\* is the name of the caller's function, or of its receiver for a method.
C29_LabelIsLastSegment ==
  g.last.op = "emit" =>
     /\ g.last.label.pkg = LastSegment(g.last.caller.pkg)
     /\ g.last.label.fn = <<(IF g.last.caller.recv = "" THEN g.last.caller.fn
                             ELSE g.last.caller.recv)>>

\* thread t is inside updateOutput, after the new writer was installed in
\* its slot and before the old slot's file is closed
InSwap(t) == pc[t] \in {"u5", "u6"}

\* the slot (1 or 2) that was active when the swap of thread t began: idx is
\* the new slot up to line 632 and the old one from there on
OldSlot(t) == IF pc[t] = "u5" THEN 2 - tl[t].x.idx ELSE tl[t].x.idx + 1

\* C30 as claimed: while a swap has not yet closed the file of the old slot,
\* the active writer is not the writer of the new slot.
C30_ActiveFlipsLast ==
  \A t \in Threads :
     ( /\ InSwap(t)
       /\ l.files[OldSlot(t)] # 0
       /\ ~fobj[l.files[OldSlot(t)]].closed )
     => l.writer # l.writers[3 - OldSlot(t)]

\* slot i of L holds an open file and its writer
Occupied(L, i) ==
  /\ L.files[i] # 0 /\ L.writers[i] # 0
  /\ wobj[L.writers[i]].f = L.files[i]
  /\ ~fobj[L.files[i]].closed

\* slot i of L holds nothing
Vacant(L, i) == L.files[i] = 0 /\ L.writers[i] = 0

\* one slot of l is occupied, the other is empty, and the active writer is
\* the writer of the occupied slot
OneSlotActive ==
  \E i \in {1, 2} : Occupied(l, i) /\ Vacant(l, 3 - i) /\ l.writer = l.writers[i]

\* C31: in single-threaded use, after every operation that leaves the logger
\* initialized (emits, rotations whose open succeeds or fails, configuration
\* calls), one slot is occupied, the other is empty and the active writer is
\* the occupied slot's writer; every rotation installs its new file in the
\* slot that was empty, and the slot that was occupied is empty after it.
C31_OneSlotOccupied ==
  [][ /\ (l'.outputInited /\ ~g'.flushed) => OneSlotActive'
      /\ RotationStep
           => \E i \in {1, 2} : /\ Vacant(l, i)
                                /\ l'.files[i] = g'.last.opened
                                /\ Vacant(l', 3 - i) ]_vars

\* C31 witness: after two rotations, the second back into the first slot,
\* the first slot is the occupied one.
C31_Witness ==
  /\ g.rot = 2 /\ g.last.op = "emit" /\ g.last.opened # 0
  /\ Occupied(l, 1) /\ Vacant(l, 2) /\ l.writer = l.writers[1]
  /\ Len(fobj) = 3

\* C32: an emit whose swap found both slots occupied does not return
\* success.
C32_RefusedSwapReportsError ==
  \A t \in Threads :
    (pc[t] = "idle" /\ tl[t].n > 0 /\ tl[t].x.idx = -1) => tl[t].x.err # "none"

\* the step is a file-routed emit that made the first-time creation
FirstCreation ==
  /\ g'.last.op = "emit" /\ g'.last.err = "none"
  /\ ~l.outputInited /\ l'.outputInited

\* C33: first-time creation ends either with a path that was not in the
\* folder and the counter at 0, or with a file of the folder that has the
\* time stamp of the current period, the counter at its size on disk and no
\* rotation due for that size; in both cases, for a trigger with a size
\* limit, the name the next rotation takes is not in the scanned folder.
\* (The counter is compared after the write of the record, its bytes taken
\* off.)
C33_InitOutcomes ==
  [][ FirstCreation =>
        LET p == fobj'[l'.files[1]].path
            c == l'.cumSize - g'.last.size
        IN /\ \/ p \notin DOMAIN fs /\ c = 0
              \/ /\ p \in DOMAIN fs
                 /\ p.folder = l.folder /\ p.ts = getFileTime(l, now)
                 /\ c = Bytes(fs[p])
                 /\ whetherNeedUpdateOutputs([l EXCEPT !.cumSize = Bytes(fs[p])], now) = 0
           /\ l.shiftType \in SizeTypes
                => getFilePath(l', now).path \notin DOMAIN fs ]_vars

\* the size of the active file: its bytes on disk and the bytes waiting in
\* the active writer
ActiveSize ==
  Bytes(fs[fobj[wobj[l.writer].f].path]) + Bytes(wobj[l.writer].buf)

\* C34: in single-threaded use, after every operation that leaves the logger
\* initialized the counter is the size of the active file, and a
\* configuration call on an initialized logger leaves the counter alone.
C34_CounterIsActiveFileSize ==
  [][ /\ (l'.outputInited /\ ~g'.flushed /\ ~panic') => l'.cumSize = ActiveSize'
      /\ (l.outputInited /\ g'.last.op \in {"config", "shift"})
           => l'.cumSize = l.cumSize ]_vars

\* C35: whatever the number of rotations before a call of Flush, a
\* file-routed emit made after it on the initialized logger returns (nil or
\* an error) and does not fail on a nil writer.
C35_EmitAfterFlushReturns ==
  (g.flushed /\ l.outputInited /\ g.last.op = "emit" /\ g.last.routed)
    => (~panic /\ g.last.err # "panic")

\* thread t holds l.mu and is at the write of lines 386-392
Writing(t) == pc[t] \in {"w1", "w2"}

\* thread t is inside Flush
Flushing(t) == pc[t] \in FlushLabels

\* C36: no round of Flush (which flushes and closes a file and assigns
\* l.writer) runs while another thread is at the write of an emit, and no
\* thread makes the write of an emit while another thread is between two
\* rounds of Flush.
C36_FlushExcludesEmit ==
  [][ \A t \in Threads : \A u \in Threads \ {t} :
        /\ (Flushing(t) /\ pc'[t] # pc[t]) => ~Writing(u)
        /\ (Writing(u) /\ pc'[u] # pc[u]) => pc[t] # "f2" ]_vars

\* C37: a thread holds l.mu only from l.mu.Lock() to the return of its emit
\* (whether the write succeeded or failed), a thread that returned before
\* the write never took it, and under fair scheduling every emit that a
\* thread has started returns.
C37_LockAlwaysReleased ==
  /\ [](\A t \in Threads : mu = t => Writing(t))
  /\ [](mu \in Threads \cup {0})
  /\ \A t \in Threads : (pc[t] # "idle") ~> (pc[t] = "idle")

\* C37 witness: both threads have made all their emits, one failed in the
\* write, one succeeded, and the lock is free.
C37_Witness ==
  /\ \A t \in Threads : pc[t] = "idle" /\ tl[t].n = MaxFairEmits
  /\ mu = 0 /\ ~panic
  /\ "write" \in g.errs
  /\ g.acc # {}

\* C38: every signal delivered to the process is followed by the process
\* ending (exitHandle reaching os.Exit after the package's Flush, or the
\* process dying before).
C38_SignalHandled ==
  (reg.signals > 0) ~> (reg.handler = "exited" \/ panic)

\* C39: the logger that SetLogger creates for an unused index is configured
\* as a logger created without options on which SetOptions is then called
\* with the options SetLogger was given.
C39_SetLoggerAppliesOptions ==
  (g.last.op = "setlogger" /\ g.last.created)
    => reg.heap[g.last.ret]
         = SetOptions(newLogger(g.last.name, g.last.lv, <<>>), now, g.last.options)

\* C40: SetLogger on a registered index returns the logger registered there
\* and changes neither a logger nor the map; GetLogger returns the logger
\* registered under the index, nil when there is none, and changes nothing;
\* an index keeps the logger it was registered with, and no logger is
\* registered under two indexes.
C40_OneLoggerPerIndex ==
  [][ /\ (g'.last.op = "setlogger" /\ reg.loggerMap[g'.last.idx] # 0)
           => (g'.last.ret = reg.loggerMap[g'.last.idx] /\ reg' = reg)
      /\ (g'.last.op = "setlogger" /\ reg.loggerMap[g'.last.idx] = 0)
           => /\ g'.last.ret = reg'.loggerMap[g'.last.idx]
              /\ g'.last.ret \notin {0} \cup {reg.loggerMap[i] : i \in Indexes}
              /\ reg'.heap[g'.last.ret].loggerName = g'.last.name
              /\ reg'.heap[g'.last.ret].level = g'.last.lv
      /\ g'.last.op = "getlogger"
           => (g'.last.ret = reg.loggerMap[g'.last.idx] /\ reg' = reg)
      /\ \A i \in Indexes :
           /\ reg.loggerMap[i] # 0 => reg'.loggerMap[i] = reg.loggerMap[i]
           /\ (reg.loggerMap[i] = 0 /\ reg'.loggerMap[i] # 0)
                => (g'.last.op = "setlogger" /\ g'.last.idx = i)
           /\ \A j \in Indexes \ {i} :
                reg'.loggerMap[i] # 0 => reg'.loggerMap[i] # reg'.loggerMap[j] ]_vars

\* C40 witness: SetLogger was called with another name and level on an index
\* whose logger has a file open; it returned that logger, and the other
\* index has no logger.
C40_Witness ==
  /\ g.last.op = "setlogger" /\ ~g.last.created
  /\ g.last.ret # 0 /\ g.last.ret = reg.loggerMap[g.last.idx]
  /\ reg.heap[g.last.ret].loggerName # g.last.name
  /\ reg.heap[g.last.ret].level # g.last.lv
  /\ reg.heap[g.last.ret].outputInited
  /\ \E i \in Indexes : GetLogger(reg, i) = 0

\* the chunks of record rid in the files of the folder
ChunksOf(rid) ==
  {pi \in {<<p, i>> : p \in DOMAIN fs, i \in 1..(2 * MaxThreadEmits * Cardinality(Threads))} :
     pi[2] <= Len(fs[pi[1]]) /\ fs[pi[1]][pi[2]][1] = rid}

\* C2 as claimed: after the final Flush, when no emit has returned an error,
\* every record the threads emitted is in the files as one complete line, in
\* one piece.
C2_AllLinesAfterFlush ==
  (g.flushed /\ ~g.failed /\ ~panic) =>
     \A rid \in g.sub :
        /\ Cardinality(ChunksOf(rid)) = 1
        /\ \A pi \in ChunksOf(rid) : fs[pi[1]][pi[2]][2] = g.recs[rid]

\* C3 as claimed: with the size trigger, there are never more rotations than
\* crossings of the size limit.
C3_OneRotationPerCrossing ==
  (l.shiftType = ShiftSize /\ l.sizeLimit > 0) => g.rot <= g.cross

\* C4 as claimed: no record is written to a writer that a rotation has
\* flushed (a writer whose slot is being closed or is closed).
C4_NoWriteToRetiredWriter == ~g.stale

====
